---- MODULE Spec2Model ----
(***************************************************************************)
(* Remote-host automation scripts of PerfumesStore: ssh_run.py (run one    *)
(* command over SSH), scp_run.py (upload a file or the regular files of a  *)
(* directory over SFTP) and upload_images.py (upload the product images).  *)
(* One behaviour is one invocation of one entry point, optionally followed *)
(* by a second invocation of the same entry point with the same arguments  *)
(* against the remote host the first one left behind.                      *)
(***************************************************************************)
EXTENDS Integers, Sequences, FiniteSets, TLC

\* ------------------------------------------------------------ bounds
\* Largest number of entries in the local directory.
MaxFiles == 21
\* Units of data the SSH channel lets the remote side send before the client
\* has consumed any (the channel window shared by stdout and stderr).
Window == 2
\* Largest number of units the remote command writes to stdout / to stderr.
MaxOut == 3
MaxErr == 3
\* Number of invocations in one behaviour.
MaxRuns == 2

\* ------------------------------------------------------------ program constants
DefaultPort == 22
ProgressEvery == 10

Programs == {"ssh_run", "scp_copy", "upload_images"}

\* ------------------------------------------------------------ exceptions
\* The exception classes the handlers tell apart, each with its base classes
\* (paramiko.AuthenticationException derives from paramiko.SSHException;
\* IsADirectoryError derives from OSError, which is IOError).
Bases(cls) ==
    CASE cls = "AuthenticationException" -> {"AuthenticationException", "SSHException", "Exception"}
      [] cls = "SSHException"            -> {"SSHException", "Exception"}
      [] cls = "IsADirectoryError"       -> {"IsADirectoryError", "IOError", "Exception"}
      [] cls = "IOError"                 -> {"IOError", "Exception"}
      [] OTHER                           -> {cls, "Exception"}

IsInstance(exc, cls) == cls \in Bases(exc)

\* What a remote operation can raise when the peer or the network fails it.
Raisable == {"AuthenticationException", "SSHException", "IOError"}

\* ------------------------------------------------------------ local files
LocalDir == "server/uploads/products"
LocalFile == "file.txt"
MissingPath == "missing"
RemoteDir == "/root/PerfumesStore/server/uploads/products"
RemoteParent == "/root/PerfumesStore/server/uploads"
RemoteFileArg == "/root/PerfumesStore/server/uploads/products/1.png"

\* Directory templates: the suffix and kind of the entries, repeated in
\* enumeration order.
Patterns ==
    { << [suffix |-> "png", kind |-> "file"] >>,
      << [suffix |-> "txt", kind |-> "file"], [suffix |-> "jpg", kind |-> "file"],
         [suffix |-> "webp", kind |-> "file"], [suffix |-> "png", kind |-> "file"] >>,
      << [suffix |-> "d", kind |-> "dir"], [suffix |-> "png", kind |-> "file"],
         [suffix |-> "jpg", kind |-> "file"] >>,
      << [suffix |-> "png", kind |-> "dir"], [suffix |-> "webp", kind |-> "file"] >> }

DirEntry(p, k) ==
    LET t == p[((k - 1) % Len(p)) + 1]
    IN  [name |-> ToString(k) \o "." \o t.suffix, suffix |-> t.suffix, kind |-> t.kind]

Listing(p, n) == [k \in 1..n |-> DirEntry(p, k)]

\* The local file systems: the directory is absent, or holds a listing.
LocalFileSystems ==
    { [dirExists |-> FALSE, entries |-> << >>] }
    \cup { [dirExists |-> TRUE, entries |-> Listing(p, n)] : p \in Patterns, n \in 0..MaxFiles }

\* A path object: the directory it lies in and its final component.
PathOf(parent, name) == [parent |-> parent, name |-> name]

\* str(path)
Str(path) == IF path.parent = "" THEN path.name ELSE path.parent \o "/" \o path.name

\* Path(local_path) for the command-line argument local_path.
PathArg(local_path) == PathOf("", local_path)

Range(s) == { s[k] : k \in 1..Len(s) }

\* Mutant of Exists: every path is taken to exist.
Exists_Unchecked(fs, path) == TRUE

\* Path.exists()
Exists(fs, path) ==
    \/ Str(path) = LocalFile
    \/ Str(path) = LocalDir /\ fs.dirExists
    \/ path.parent = LocalDir /\ fs.dirExists /\ \E e \in Range(fs.entries) : e.name = path.name

\* Path.is_file()
IsFile(fs, path) ==
    \/ Str(path) = LocalFile
    \/ path.parent = LocalDir /\ fs.dirExists
       /\ \E e \in Range(fs.entries) : e.name = path.name /\ e.kind = "file"

\* fnmatch of a base name against the patterns the scripts use.
Matches(e, pattern) ==
    CASE pattern = "*"      -> TRUE
      [] pattern = "*.png"  -> e.suffix = "png"
      [] pattern = "*.jpg"  -> e.suffix = "jpg"
      [] pattern = "*.webp" -> e.suffix = "webp"
      [] OTHER              -> FALSE

\* list(path.glob(pattern)): the matching direct children, in enumeration order.
Glob(fs, path, pattern) ==
    IF Str(path) = LocalDir /\ fs.dirExists
    THEN LET hit(e) == Matches(e, pattern)
             sel == SelectSeq(fs.entries, hit)
         IN  [k \in 1..Len(sel) |-> PathOf(Str(path), sel[k].name)]
    ELSE << >>

\* Mutant of OnlyFiles: the filter is inverted.
OnlyFiles_Inverted(fs, paths) == LET keep(f) == ~IsFile(fs, f) IN SelectSeq(paths, keep)

\* [f for f in files if f.is_file()]
OnlyFiles(fs, paths) == LET keep(f) == IsFile(fs, f) IN SelectSeq(paths, keep)

\* scp_copy: files = list(local.glob('*')); files = [f for f in files if f.is_file()]
ListFiles(fs, local) == OnlyFiles(fs, Glob(fs, local, "*"))

\* upload_images: glob('*.png') + glob('*.jpg') + glob('*.webp')
ListImages(fs, local_dir) ==
    Glob(fs, local_dir, "*.png") \o Glob(fs, local_dir, "*.jpg") \o Glob(fs, local_dir, "*.webp")

\* Mutant of RemoteFile: the separator is left out.
RemoteFile_NoSlash(remote_path, f) == remote_path \o f.name

\* f'{remote_path}/{f.name}'
RemoteFile(remote_path, f) == remote_path \o "/" \o f.name

\* Bytes of a local file (distinct per file).
Content(path) == "bytes of " \o Str(path)

\* ------------------------------------------------------------ configuration
FullConfig == [SSH_HOST |-> "h", SSH_USER |-> "u", SSH_PASSWORD |-> "p", SSH_PORT |-> "absent"]

\* The .env files: absent, complete, with a port, and with one of the three
\* required keys absent or empty.
EnvFiles ==
    { [exists |-> FALSE, config |-> FullConfig],
      [exists |-> TRUE, config |-> FullConfig],
      [exists |-> TRUE, config |-> [FullConfig EXCEPT !.SSH_PORT = "2222"]],
      [exists |-> TRUE, config |-> [FullConfig EXCEPT !.SSH_PORT = "abc"]] }
    \cup { [exists |-> TRUE, config |-> [FullConfig EXCEPT ![key] = v]] :
             key \in {"SSH_HOST", "SSH_USER", "SSH_PASSWORD"}, v \in {"absent", ""} }

\* config.get(key): None for an absent key.
Truthy(v) == v # "absent" /\ v # ""

\* Mutant of ConfigComplete: the password is not checked.
ConfigComplete_NoPassword(cfg) == Truthy(cfg.SSH_HOST) /\ Truthy(cfg.SSH_USER)

\* all([host, user, password])
ConfigComplete(cfg) == Truthy(cfg.SSH_HOST) /\ Truthy(cfg.SSH_USER) /\ Truthy(cfg.SSH_PASSWORD)

\* int(config.get('SSH_PORT', 22)): -1 stands for the ValueError of a non-number.
ParsePort(cfg) ==
    CASE cfg.SSH_PORT = "absent" -> DefaultPort
      [] cfg.SSH_PORT = "2222"   -> 2222
      [] OTHER                   -> -1

\* The exit status the operating system records for sys.exit(code).
SysExit(code) == code % 256

\* ------------------------------------------------------------ remote host
\* The remote file system: its directories and the content of its files.
RemoteSystems ==
    { [dirs |-> {}, files |-> << >>],
      [dirs |-> {RemoteParent}, files |-> << >>],
      [dirs |-> {RemoteParent, RemoteDir}, files |-> << >>],
      [dirs |-> {RemoteParent, RemoteDir},
       files |-> (RemoteFileArg :> "old") @@ ((RemoteDir \o "/keep.txt") :> "kept")] }

ParentOf(remote_path) ==
    CASE remote_path = RemoteDir -> RemoteParent
      [] remote_path = RemoteParent -> "/"
      [] OTHER -> RemoteDir

HasFile(r, p) == p \in DOMAIN r.files

Store(r, p, c) ==
    [r EXCEPT !.files = (p :> c) @@ [q \in (DOMAIN r.files) \ {p} |-> r.files[q]]]

\* Whether the server accepts sftp.mkdir(p) / sftp.put(_, p).
CanMkdir(r, p) == ParentOf(p) \in r.dirs /\ p \notin r.dirs /\ ~HasFile(r, p)
CanPut(r, p) == ParentOf(p) \in r.dirs /\ p \notin r.dirs

\* ------------------------------------------------------------ state
VARIABLES
    prog,        \* the entry point invoked
    argv,        \* sys.argv[1:]
    envFile,     \* the .env file next to the script
    localFs,     \* the local file system
    remote,      \* the remote file system
    prevRemote,  \* the remote file system when the previous invocation ended
    prevLog,     \* the log of the previous invocation
    runNo,       \* 1 for the first invocation, 2 for the repeated one
    pc,          \* position in the script
    config,      \* load_env()'s result
    client,      \* the paramiko.SSHClient: "none", "unconnected", "connected", "closed"
    closeCount,  \* calls of client.close() in this invocation
    sftp,        \* the SFTP channel: "none", "open", "closed"
    files,       \* the list of files to upload
    i,           \* the loop index of enumerate(files)
    exc,         \* the exception being handled, "none" if none
    pending,     \* how the function is being left: return value or SystemExit
    chan,        \* the exec channel and the remote command behind it
    output,      \* units read from stdout
    errors,      \* units read from stderr
    exit_code,   \* the value of recv_exit_status()
    log,         \* remote operations issued and lines printed, in order
    exitCode     \* the process exit code, -1 while the process runs

inputs == <<prog, argv, envFile, localFs>>
history == <<prevRemote, prevLog, runNo>>
session == <<client, closeCount, sftp>>
locals == <<config, files, i, exc, pending, output, errors, exit_code>>
vars == <<inputs, history, session, locals, remote, chan, pc, log, exitCode>>

NoChan ==
    [open |-> FALSE, outLeft |-> 0, errLeft |-> 0, outBuf |-> 0, errBuf |-> 0,
     window |-> 0, exited |-> FALSE, status |-> 0]
NoPending == [kind |-> "none", value |-> 0]

Event(op, arg, res) == [op |-> op, arg |-> arg, res |-> res]
Printed(stream, line) == Event("print", line, stream)

\* The command lines of each entry point.
ArgvOf(p) ==
    CASE p = "ssh_run"  -> { << >>, <<"cmd">> }
      [] p = "scp_copy" -> { <<LocalDir>>, <<LocalFile, RemoteFileArg>>, <<LocalFile, RemoteDir>>,
                             <<LocalDir, RemoteDir>>, <<MissingPath, RemoteDir>> }
      [] OTHER          -> { << >> }

\* Whether the invocation reads the local directory.
UsesLocalDir(p, args) == p = "upload_images" \/ (p = "scp_copy" /\ args[1] = LocalDir)

\* The invocations explored: every local directory and remote host under the
\* complete .env file, and every .env file with the small local directories.
Scenarios ==
    { [prog |-> p, argv |-> a, envFile |-> e, localFs |-> l, remote |-> r] :
        p \in Programs, a \in UNION { ArgvOf(q) : q \in Programs }, e \in EnvFiles,
        l \in LocalFileSystems, r \in RemoteSystems }

Explored(s) ==
    /\ s.argv \in ArgvOf(s.prog)
    /\ \/ s.envFile = [exists |-> TRUE, config |-> FullConfig]
       \/ Len(s.localFs.entries) <= 1 /\ s.remote.dirs = {RemoteParent}
    /\ s.prog = "ssh_run" => s.remote.dirs = {RemoteParent}
    /\ ~UsesLocalDir(s.prog, s.argv) => ~s.localFs.dirExists

Fresh ==
    /\ pc = "main"
    /\ config = FullConfig
    /\ client = "none" /\ closeCount = 0 /\ sftp = "none"
    /\ files = << >> /\ i = 0
    /\ exc = "none" /\ pending = NoPending
    /\ chan = NoChan /\ output = 0 /\ errors = 0 /\ exit_code = 0
    /\ log = << >>
    /\ exitCode = -1

Init ==
    /\ \E s \in Scenarios :
         /\ Explored(s)
         /\ prog = s.prog /\ argv = s.argv /\ envFile = s.envFile
         /\ localFs = s.localFs /\ remote = s.remote
    /\ prevRemote = remote /\ prevLog = << >> /\ runNo = 1
    /\ Fresh

\* ------------------------------------------------------------ leaving the process
\* The process ends with exit status code.
Exit(code) ==
    /\ pc' = "exited"
    /\ exitCode' = SysExit(code)

\* ------------------------------------------------------------ pre-flight
\* __main__: the usage check on the command line.
Main ==
    /\ pc = "main"
    /\ IF (prog = "ssh_run" /\ Len(argv) < 1) \/ (prog = "scp_copy" /\ Len(argv) < 2)
       THEN /\ log' = Append(log, Printed("stderr", <<"Usage">>))
            /\ Exit(1)
       ELSE /\ pc' = "load_env"
            /\ UNCHANGED <<log, exitCode>>
    /\ UNCHANGED <<inputs, history, session, locals, remote, chan>>

\* load_env(): exits when the .env file is absent.
LoadEnv ==
    /\ pc = "load_env"
    /\ IF ~envFile.exists
       THEN /\ log' = Append(log, Printed("stderr", <<"Error: .env file not found">>))
            /\ Exit(1)
            /\ UNCHANGED config
       ELSE /\ config' = envFile.config
            /\ pc' = "check_config"
            /\ UNCHANGED <<log, exitCode>>
    /\ UNCHANGED <<inputs, history, session, remote, chan,
                   files, i, exc, pending, output, errors, exit_code>>

\* The port conversion and the check of host, user and password.
CheckConfig ==
    /\ pc = "check_config"
    /\ IF ParsePort(config) < 0
       THEN /\ log' = Append(log, Printed("stderr", <<"Traceback: ValueError">>))
            /\ Exit(1)
       ELSE IF ~ConfigComplete(config)
       THEN /\ log' = Append(log, Printed("stderr", <<"Error: Missing SSH configuration in .env file">>))
            /\ Exit(1)
       ELSE /\ pc' = IF prog = "ssh_run" THEN "create_client" ELSE "check_local"
            /\ UNCHANGED <<log, exitCode>>
    /\ UNCHANGED <<inputs, history, session, locals, remote, chan>>

\* The local path of the transfer: the argument of scp_copy, the fixed
\* directory of upload_images.
LocalPath == IF prog = "scp_copy" THEN PathArg(argv[1]) ELSE PathArg(LocalDir)

\* The remote path of the transfer.
RemotePath == IF prog = "scp_copy" THEN argv[2] ELSE RemoteDir

\* if not local.exists(): exit
CheckLocal ==
    /\ pc = "check_local"
    /\ IF ~Exists(localFs, LocalPath)
       THEN /\ log' = Append(log, Printed("stderr", <<"Error: Local path not found">>))
            /\ Exit(1)
       ELSE /\ pc' = "create_client"
            /\ UNCHANGED <<log, exitCode>>
    /\ UNCHANGED <<inputs, history, session, locals, remote, chan>>

\* paramiko.SSHClient() and the host-key policy.
CreateClient ==
    /\ pc = "create_client"
    /\ client' = "unconnected"
    /\ log' = IF prog = "ssh_run" THEN log
              ELSE Append(log, Printed("stdout", <<"Connecting to", config.SSH_HOST>>))
    /\ pc' = "connect"
    /\ UNCHANGED <<inputs, history, closeCount, sftp, locals, remote, chan, exitCode>>

\* ------------------------------------------------------------ session
\* What connect can raise, and what an operation on an open session can.
ConnectOutcomes == {"ok"} \cup Raisable
ChannelOutcomes == {"ok", "SSHException", "IOError"}

\* ' '.join(sys.argv[1:])
RECURSIVE JoinWords(_)
JoinWords(words) ==
    IF Len(words) = 0 THEN ""
    ELSE IF Len(words) = 1 THEN words[1]
    ELSE words[1] \o " " \o JoinWords(Tail(words))

\* Mutant of ConnectLeadsTo: a failed connect is ignored and the script goes on.
ConnectLeadsTo_Ignored(res) == IF prog = "ssh_run" THEN "exec_command" ELSE "open_sftp"

\* Where the try block goes after connect: on to the first operation of the
\* session, or to the handlers when it raised.
ConnectLeadsTo(res) ==
    IF res # "ok" THEN "except"
    ELSE IF prog = "ssh_run" THEN "exec_command" ELSE "open_sftp"

\* client.connect(host, port, username, password, timeout=30)
Connect(res) ==
    /\ pc = "connect"
    /\ log' = Append(log, Event("connect", config.SSH_HOST, res))
    /\ client' = IF res = "ok" THEN "connected" ELSE client
    /\ pc' = ConnectLeadsTo(res)
    /\ exc' = IF res = "ok" THEN exc ELSE res
    /\ UNCHANGED <<inputs, history, closeCount, sftp, remote, chan, exitCode,
                   config, files, i, pending, output, errors, exit_code>>

\* sftp = ssh.open_sftp()
OpenSftp(res) ==
    /\ pc = "open_sftp"
    /\ log' = Append(log, Event("open_sftp", "", res))
    /\ IF res = "ok"
       THEN /\ sftp' = "open"
            /\ pc' = IF prog = "scp_copy" THEN "is_file" ELSE "mkdir"
            /\ UNCHANGED exc
       ELSE /\ pc' = "except"
            /\ exc' = res
            /\ UNCHANGED sftp
    /\ UNCHANGED <<inputs, history, client, closeCount, remote, chan, exitCode,
                   config, files, i, pending, output, errors, exit_code>>

\* ------------------------------------------------------------ transfers
\* The remote host after sftp.put(local, target) ended with res: the content
\* is stored on success, and a transfer cut by the transport leaves what was
\* written so far.
AfterPut(r, local, target, res) ==
    CASE res = "ok" -> Store(r, target, Content(local))
      [] res = "SSHException" /\ CanPut(r, target) -> Store(r, target, "partial")
      [] OTHER -> r

\* The outcomes of sftp.put(local, target): a directory cannot be opened for
\* reading, the server refuses a target it cannot create, and the transport
\* can fail any transfer.
PutOutcomes(fs, r, local, target) ==
    IF ~IsFile(fs, local) THEN {"IsADirectoryError"}
    ELSE IF ~CanPut(r, target) THEN {"IOError"}
    ELSE ChannelOutcomes

\* Mutant of EmptyReturnsEarly: the empty list is not looked at.
EmptyReturnsEarly_Never(n) == FALSE

\* if not files: print("No files found to upload."); return 0
EmptyReturnsEarly(n) == n = 0

\* scp_copy: the branch on local.is_file(), the listing of the directory and
\* the early return on an empty list.
IsFileBranch ==
    /\ pc = "is_file"
    /\ IF IsFile(localFs, LocalPath)
       THEN /\ log' = Append(log, Printed("stdout", <<"Uploading", LocalPath.name>>))
            /\ pc' = "put_single"
            /\ UNCHANGED <<files, pending>>
       ELSE /\ files' = ListFiles(localFs, LocalPath)
            /\ IF EmptyReturnsEarly(Len(files'))
               THEN /\ log' = Append(log, Printed("stdout", <<"No files found to upload.">>))
                    /\ pending' = [kind |-> "return", value |-> 0]
                    /\ pc' = "finally"
               ELSE /\ pc' = "mkdir"
                    /\ UNCHANGED <<log, pending>>
    /\ UNCHANGED <<inputs, history, session, remote, chan, exitCode,
                   config, i, exc, output, errors, exit_code>>

\* Mutant of SingleTarget: remote_path is taken for a directory.
SingleTarget_Joined(local, remote_path) == remote_path \o "/" \o local.name

\* The target of the single-file upload: remote_path as given.
SingleTarget(local, remote_path) == remote_path

\* scp_copy: sftp.put(str(local), remote_path) and the message after it.
PutSingle(res) ==
    /\ pc = "put_single"
    /\ res \in PutOutcomes(localFs, remote, LocalPath, SingleTarget(LocalPath, RemotePath))
    /\ remote' = AfterPut(remote, LocalPath, SingleTarget(LocalPath, RemotePath), res)
    /\ IF res = "ok"
       THEN /\ log' = log \o << Event("put", <<Str(LocalPath), SingleTarget(LocalPath, RemotePath)>>, res),
                               Printed("stdout", <<"Done! Uploaded", LocalPath.name>>) >>
            /\ pc' = "sftp_close"
            /\ UNCHANGED exc
       ELSE /\ log' = Append(log, Event("put", <<Str(LocalPath), SingleTarget(LocalPath, RemotePath)>>, res))
            /\ pc' = "except"
            /\ exc' = res
    /\ UNCHANGED <<inputs, history, session, chan, exitCode,
                   config, files, i, pending, output, errors, exit_code>>

\* The outcomes of sftp.mkdir(p): the server creates the directory or reports
\* a failure (IOError), or the transport fails.
MkdirOutcomes(r, p) ==
    (IF CanMkdir(r, p) THEN {"ok"} ELSE {}) \cup {"IOError", "SSHException"}

\* Mutant of MkdirSwallows: no inner handler around sftp.mkdir.
MkdirSwallows_Nothing(e) == FALSE

\* Whether the inner handler around sftp.mkdir swallows the exception.
MkdirSwallows(e) == IsInstance(e, "IOError")

\* sftp.mkdir(remote_dir) inside try/except IOError; scp_copy then announces
\* the number of files.
Mkdir(res) ==
    /\ pc = "mkdir"
    /\ res \in MkdirOutcomes(remote, RemotePath)
    /\ remote' = IF res = "ok" THEN [remote EXCEPT !.dirs = @ \cup {RemotePath}] ELSE remote
    /\ IF res = "ok" \/ MkdirSwallows(res)
       THEN /\ IF prog = "scp_copy"
               THEN /\ log' = log \o << Event("mkdir", RemotePath, res),
                                       Printed("stdout", <<"Uploading files", Len(files)>>) >>
                    /\ pc' = "put"
               ELSE /\ log' = Append(log, Event("mkdir", RemotePath, res))
                    /\ pc' = "list"
            /\ UNCHANGED exc
       ELSE /\ log' = Append(log, Event("mkdir", RemotePath, res))
            /\ pc' = "except"
            /\ exc' = res
    /\ i' = 0
    /\ UNCHANGED <<inputs, history, session, chan, exitCode,
                   config, files, pending, output, errors, exit_code>>

\* upload_images: the list of image files and the early return on an empty list.
ListStep ==
    /\ pc = "list"
    /\ files' = ListImages(localFs, LocalPath)
    /\ IF Len(files') = 0
       THEN /\ log' = Append(log, Printed("stdout", <<"No image files found to upload.">>))
            /\ pending' = [kind |-> "return_none", value |-> 0]
            /\ pc' = "finally"
       ELSE /\ log' = Append(log, Printed("stdout", <<"Uploading images", Len(files')>>))
            /\ pc' = "put"
            /\ UNCHANGED pending
    /\ UNCHANGED <<inputs, history, session, remote, chan, exitCode,
                   config, i, exc, output, errors, exit_code>>

\* Mutant of PutLeadsTo: a failed transfer is skipped and the loop goes on.
PutLeadsTo_BestEffort(res) == "progress"

\* Where the loop body goes after sftp.put: on to the progress line, or out
\* of the loop to the handlers when it raised.
PutLeadsTo(res) == IF res = "ok" THEN "progress" ELSE "except"

\* The loop body's transfer: sftp.put(str(f), remote_file) for f = files[i].
Put(res) ==
    /\ pc = "put"
    /\ LET f == files[i + 1]
           target == RemoteFile(RemotePath, f)
       IN  /\ res \in PutOutcomes(localFs, remote, f, target)
           /\ remote' = AfterPut(remote, f, target, res)
           /\ log' = Append(log, Event("put", <<Str(f), target>>, res))
    /\ pc' = PutLeadsTo(res)
    /\ exc' = IF res = "ok" THEN exc ELSE res
    /\ UNCHANGED <<inputs, history, session, chan, exitCode,
                   config, files, i, pending, output, errors, exit_code>>

\* Mutant of ShouldReport: no line after the final file.
ShouldReport_NoFinal(idx, n) == (idx + 1) % ProgressEvery = 0

\* if (i + 1) % 10 == 0 or (i + 1) == len(files)
ShouldReport(idx, n) == (idx + 1) % ProgressEvery = 0 \/ (idx + 1) = n

\* The loop body's progress line and the step to the next file.
Progress ==
    /\ pc = "progress"
    /\ log' = IF ShouldReport(i, Len(files))
              THEN Append(log, Printed("stdout", <<"Uploaded", i + 1, Len(files)>>))
              ELSE log
    /\ i' = i + 1
    /\ pc' = IF i + 1 = Len(files) THEN "done_msg" ELSE "put"
    /\ UNCHANGED <<inputs, history, session, remote, chan, exitCode,
                   config, files, exc, pending, output, errors, exit_code>>

\* print(f"Done! Uploaded {len(files)} ...")
DoneMsg ==
    /\ pc = "done_msg"
    /\ log' = Append(log, Printed("stdout", <<"Done! Uploaded files", Len(files)>>))
    /\ pc' = "sftp_close"
    /\ UNCHANGED <<inputs, history, session, locals, remote, chan, exitCode>>

\* sftp.close(), then return 0 (scp_copy) or the end of the try block.
SftpClose ==
    /\ pc = "sftp_close"
    /\ sftp' = "closed"
    /\ log' = Append(log, Event("sftp.close", "", "ok"))
    /\ pending' = IF prog = "scp_copy" THEN [kind |-> "return", value |-> 0]
                  ELSE [kind |-> "return_none", value |-> 0]
    /\ pc' = "finally"
    /\ UNCHANGED <<inputs, history, client, closeCount, remote, chan, exitCode,
                   config, files, i, exc, output, errors, exit_code>>

\* ------------------------------------------------------------ command execution
\* The exit statuses of the remote command; -1 is what recv_exit_status
\* gives when the server sent none (the command was killed by a signal).
RemoteStatuses == {0, 1, 17, 255, -1}

\* stdin, stdout, stderr = client.exec_command(command): the remote command
\* will write o units to stdout and e to stderr and end with status st.
ExecCommand(res, o, e, st) ==
    /\ pc = "exec_command"
    /\ log' = Append(log, Event("exec_command", JoinWords(argv), res))
    /\ IF res = "ok"
       THEN /\ chan' = [open |-> TRUE, outLeft |-> o, errLeft |-> e, outBuf |-> 0, errBuf |-> 0,
                        window |-> Window, exited |-> FALSE, status |-> st]
            /\ pc' = "read_stdout"
            /\ UNCHANGED exc
       ELSE /\ pc' = "except"
            /\ exc' = res
            /\ UNCHANGED chan
    /\ UNCHANGED <<inputs, history, session, remote, exitCode,
                   config, files, i, pending, output, errors, exit_code>>

\* The remote command writes one unit to stdout: the channel window must
\* have room for it.
RemoteWriteOut ==
    /\ chan.open /\ chan.outLeft > 0 /\ chan.window > 0
    /\ chan' = [chan EXCEPT !.outLeft = @ - 1, !.outBuf = @ + 1, !.window = @ - 1]
    /\ UNCHANGED <<inputs, history, session, locals, remote, pc, log, exitCode>>

\* The remote command writes one unit to stderr, through the same window.
RemoteWriteErr ==
    /\ chan.open /\ chan.errLeft > 0 /\ chan.window > 0
    /\ chan' = [chan EXCEPT !.errLeft = @ - 1, !.errBuf = @ + 1, !.window = @ - 1]
    /\ UNCHANGED <<inputs, history, session, locals, remote, pc, log, exitCode>>

\* The remote command has written everything and ends: the server sends
\* end-of-file and the exit status.
RemoteExit ==
    /\ chan.open /\ ~chan.exited /\ chan.outLeft = 0 /\ chan.errLeft = 0
    /\ chan' = [chan EXCEPT !.exited = TRUE]
    /\ UNCHANGED <<inputs, history, session, locals, remote, pc, log, exitCode>>

\* Mutant of AfterStdout: the exit status is asked for with stderr unread.
AfterStdout_SkipStderr == "recv_exit_status"

\* The statement that follows output = stdout.read(): errors = stderr.read().
AfterStdout == "read_stderr"

\* output = stdout.read(): takes a buffered unit (which reopens the window),
\* or returns at end-of-file; blocks otherwise.
ReadStdout(res) ==
    /\ pc = "read_stdout"
    /\ IF res # "ok"
       THEN /\ log' = Append(log, Event("stdout.read", output, res))
            /\ pc' = "except" /\ exc' = res
            /\ UNCHANGED <<chan, output>>
       ELSE IF chan.outBuf > 0
       THEN /\ chan' = [chan EXCEPT !.outBuf = @ - 1, !.window = @ + 1]
            /\ output' = output + 1
            /\ UNCHANGED <<pc, exc, log>>
       ELSE /\ chan.exited
            /\ log' = Append(log, Event("stdout.read", output, "ok"))
            /\ pc' = AfterStdout
            /\ UNCHANGED <<chan, output, exc>>
    /\ UNCHANGED <<inputs, history, session, remote, exitCode,
                   config, files, i, pending, errors, exit_code>>

\* errors = stderr.read()
ReadStderr(res) ==
    /\ pc = "read_stderr"
    /\ IF res # "ok"
       THEN /\ log' = Append(log, Event("stderr.read", errors, res))
            /\ pc' = "except" /\ exc' = res
            /\ UNCHANGED <<chan, errors>>
       ELSE IF chan.errBuf > 0
       THEN /\ chan' = [chan EXCEPT !.errBuf = @ - 1, !.window = @ + 1]
            /\ errors' = errors + 1
            /\ UNCHANGED <<pc, exc, log>>
       ELSE /\ chan.exited
            /\ log' = Append(log, Event("stderr.read", errors, "ok"))
            /\ pc' = "recv_exit_status"
            /\ UNCHANGED <<chan, errors, exc>>
    /\ UNCHANGED <<inputs, history, session, remote, exitCode,
                   config, files, i, pending, output, exit_code>>

\* exit_code = stdout.channel.recv_exit_status(): waits for the command's end.
RecvExitStatus ==
    /\ pc = "recv_exit_status"
    /\ chan.exited
    /\ exit_code' = chan.status
    /\ log' = Append(log, Event("recv_exit_status", "", "ok"))
    /\ pc' = "print_output"
    /\ UNCHANGED <<inputs, history, session, remote, chan, exitCode,
                   config, files, i, exc, pending, output, errors>>

\* The captured output is printed, then return exit_code.
PrintOutput ==
    /\ pc = "print_output"
    /\ log' = log \o (IF output > 0 THEN << Printed("stdout", <<"output", output>>) >> ELSE << >>)
                  \o (IF errors > 0 THEN << Printed("stderr", <<"errors", errors>>) >> ELSE << >>)
    /\ pending' = [kind |-> "return", value |-> exit_code]
    /\ pc' = "finally"
    /\ UNCHANGED <<inputs, history, session, remote, chan, exitCode,
                   config, files, i, exc, output, errors, exit_code>>

\* ------------------------------------------------------------ handlers
\* Mutant of HandlerOf: the SSHException clause is written first.
HandlerOf_SshFirst(e) ==
    IF IsInstance(e, "SSHException") THEN "SSHException"
    ELSE IF IsInstance(e, "AuthenticationException") THEN "AuthenticationException"
    ELSE "Exception"

\* The except clause that handles e: the first, in the order written, whose
\* class e is an instance of.
HandlerOf(e) ==
    IF IsInstance(e, "AuthenticationException") THEN "AuthenticationException"
    ELSE IF IsInstance(e, "SSHException") THEN "SSHException"
    ELSE "Exception"

\* The message each clause prints.
MessageOf(handler) ==
    CASE handler = "AuthenticationException" -> "Error: Authentication failed"
      [] handler = "SSHException" -> "Error: SSH connection failed"
      [] OTHER -> "Error:"

\* Mutant of HandlerLeaves: the handlers of scp_copy return 0.
HandlerLeaves_Zero(p) ==
    IF p = "scp_copy" THEN [kind |-> "return", value |-> 0]
    ELSE [kind |-> "SystemExit", value |-> 1]

\* How a handler leaves the function: sys.exit(1) in ssh_run and
\* upload_images, return 1 in scp_copy.
HandlerLeaves(p) ==
    IF p = "scp_copy" THEN [kind |-> "return", value |-> 1]
    ELSE [kind |-> "SystemExit", value |-> 1]

\* The except clauses of the try block.
Except ==
    /\ pc = "except"
    /\ log' = Append(log, Printed("stderr", <<MessageOf(HandlerOf(exc)), exc>>))
    /\ pending' = HandlerLeaves(prog)
    /\ pc' = "finally"
    /\ UNCHANGED <<inputs, history, session, remote, chan, exitCode,
                   config, files, i, exc, output, errors, exit_code>>

\* Mutant of FinallyRuns: the close runs only when the function returns a value.
FinallyRuns_OnlyOnReturn(leaving) == leaving.kind = "return"

\* Mutant of FinallyRuns: the close is skipped when a handler calls sys.exit.
FinallyRuns_NotOnExit(leaving) == leaving.kind # "SystemExit"

\* Whether the finally clause runs for this way of leaving the try block.
FinallyRuns(leaving) == TRUE

\* finally: client.close(). Closing the client closes its transport and
\* every channel on it.
Finally ==
    /\ pc = "finally"
    /\ IF FinallyRuns(pending)
       THEN /\ closeCount' = closeCount + 1
            /\ client' = "closed"
            /\ sftp' = IF sftp = "open" THEN "closed" ELSE sftp
            /\ chan' = [chan EXCEPT !.open = FALSE]
            /\ log' = Append(log, Event("close", "", "ok"))
       ELSE UNCHANGED <<session, chan, log>>
    /\ pc' = "leave"
    /\ UNCHANGED <<inputs, history, locals, remote, exitCode>>

\* Mutant of MainExitCode: __main__ ignores the value the function returned.
MainExitCode_Dropped(leaving) == IF leaving.kind = "SystemExit" THEN leaving.value ELSE 0

\* The exit status __main__ ends the process with: sys.exit(exit_code) for
\* the value ssh_run or scp_copy returned, the SystemExit of a handler, 0
\* when upload_images returns.
MainExitCode(leaving) ==
    CASE leaving.kind = "SystemExit" -> leaving.value
      [] leaving.kind = "return" -> leaving.value
      [] OTHER -> 0

\* The function is left and __main__ ends the process.
Leave ==
    /\ pc = "leave"
    /\ Exit(MainExitCode(pending))
    /\ UNCHANGED <<inputs, history, session, locals, remote, chan, log>>

\* ------------------------------------------------------------ second invocation
\* After a successful invocation the same command line is run again.
Rerun ==
    /\ pc = "exited" /\ exitCode = 0 /\ runNo < MaxRuns
    /\ prevRemote' = remote
    /\ prevLog' = log
    /\ runNo' = runNo + 1
    /\ pc' = "main"
    /\ config' = FullConfig
    /\ client' = "none" /\ closeCount' = 0 /\ sftp' = "none"
    /\ files' = << >> /\ i' = 0
    /\ exc' = "none" /\ pending' = NoPending
    /\ chan' = NoChan /\ output' = 0 /\ errors' = 0 /\ exit_code' = 0
    /\ log' = << >>
    /\ exitCode' = -1
    /\ UNCHANGED <<inputs, remote>>

\* ------------------------------------------------------------ specification
Preflight == Main \/ LoadEnv \/ CheckConfig \/ CheckLocal \/ CreateClient

\* The steps of the remote command.
RemoteStep == RemoteWriteOut \/ RemoteWriteErr \/ RemoteExit

\* The steps of the scripts in which no operation fails.
Progressing ==
    \/ Preflight
    \/ Connect("ok") \/ OpenSftp("ok")
    \/ IsFileBranch \/ PutSingle("ok") \/ Mkdir("ok") \/ Mkdir("IOError") \/ ListStep
    \/ Put("ok") \/ Progress \/ DoneMsg \/ SftpClose
    \/ (\E o \in 0..MaxOut, e \in 0..MaxErr, st \in RemoteStatuses : ExecCommand("ok", o, e, st))
    \/ ReadStdout("ok") \/ ReadStderr("ok") \/ RecvExitStatus \/ PrintOutput
    \/ Except \/ Finally \/ Leave

Next ==
    \/ Main
    \/ LoadEnv
    \/ CheckConfig
    \/ CheckLocal
    \/ CreateClient
    \/ \E res \in ConnectOutcomes : Connect(res)
    \/ \E res \in ChannelOutcomes : OpenSftp(res)
    \/ IsFileBranch
    \/ \E res \in ChannelOutcomes \cup {"IsADirectoryError"} : PutSingle(res)
    \/ \E res \in ChannelOutcomes : Mkdir(res)
    \/ ListStep
    \/ \E res \in ChannelOutcomes \cup {"IsADirectoryError"} : Put(res)
    \/ Progress
    \/ DoneMsg
    \/ SftpClose
    \/ \E res \in ChannelOutcomes, o \in 0..MaxOut, e \in 0..MaxErr, st \in RemoteStatuses :
         ExecCommand(res, o, e, st)
    \/ RemoteWriteOut
    \/ RemoteWriteErr
    \/ RemoteExit
    \/ \E res \in ChannelOutcomes : ReadStdout(res)
    \/ \E res \in ChannelOutcomes : ReadStderr(res)
    \/ RecvExitStatus
    \/ PrintOutput
    \/ Except
    \/ Finally
    \/ Leave
    \/ Rerun

Spec == Init /\ [][Next]_vars

\* The scripts and the remote command keep running while they can; nothing
\* obliges an operation to fail.
FairSpec == Spec /\ WF_vars(Progressing) /\ WF_vars(RemoteStep)

\* ------------------------------------------------------------ reading the log
IsOp(e) == e.op # "print"
IsPut(e) == e.op = "put"
IsProgressLine(e) == e.op = "print" /\ e.arg[1] = "Uploaded"

\* The remote operations issued so far, the transfers among them, and the
\* progress lines printed so far.
Ops == SelectSeq(log, IsOp)
Puts == SelectSeq(log, IsPut)
ProgressLines == SelectSeq(log, IsProgressLine)

\* The number of transfers completed before the k-th entry of the log.
PutsDoneBefore(k) == Cardinality({ m \in 1..(k - 1) : log[m].op = "put" /\ log[m].res = "ok" })

\* The invocation uploads a directory: upload_images, or scp_copy on a local
\* path that is not a regular file.
DirUpload ==
    \/ prog = "upload_images"
    \/ prog = "scp_copy" /\ Len(argv) >= 2 /\ ~IsFile(localFs, LocalPath)

\* The invocation got as far as creating the SSH client.
ClientCreated == client # "none"

\* C1: once the SSH client exists, close() has been called exactly once by
\* the time the function is left and when the process has exited, whichever
\* way the try block was left; it is never called twice.
C1_CloseExactlyOnce ==
    /\ closeCount <= 1
    /\ (ClientCreated /\ pc \in {"leave", "exited"}) => (closeCount = 1 /\ client = "closed")
    /\ Cardinality({ k \in 1..Len(log) : log[k].op = "close" }) = closeCount

\* C1 witness: upload_images left through sys.exit(1) in the handler of a
\* failed put, with the client closed once.
C1_Witness ==
    /\ prog = "upload_images" /\ pc = "exited" /\ exitCode = 1
    /\ exc = "SSHException" /\ Len(Puts) >= 2 /\ closeCount = 1

\* C3: in ssh_run, when the command ran and ended with status k the process
\* exit code is k; when any exception was raised after the client was
\* created (authentication, transport, other) it is 1.
C3_ExitStatusPropagation ==
    (prog = "ssh_run" /\ pc = "exited" /\ ClientCreated) =>
        /\ (exc = "none" /\ chan.status >= 0) => exitCode = chan.status
        /\ exc # "none" => exitCode = 1

\* C3 witness: the remote command ended with 17 and so did ssh_run.
C3_Witness ==
    /\ prog = "ssh_run" /\ pc = "exited" /\ exc = "none"
    /\ chan.exited /\ chan.status = 17 /\ exitCode = 17

\* The operations whose failure ends the invocation.
FailFastOps == {"connect", "open_sftp", "exec_command", "put"}

\* C4: after the first failed connect, open_sftp, exec_command or put, the
\* only remote operation still issued is close, the process exit code is 1,
\* and every file uploaded before the failure is still on the remote host.
C4_FailFast ==
    \A k \in 1..Len(log) :
        (log[k].op \in FailFastOps /\ log[k].res # "ok") =>
            /\ \A m \in (k + 1)..Len(log) : log[m].op \in {"print", "close"}
            /\ pc = "exited" => exitCode = 1
            /\ \A m \in 1..(k - 1) :
                 (log[m].op = "put" /\ log[m].res = "ok") =>
                     /\ HasFile(remote, log[m].arg[2])
                     /\ remote.files[log[m].arg[2]] = "bytes of " \o log[m].arg[1]

\* C4 witness: the third of at least five files failed after two uploads.
C4_Witness ==
    /\ DirUpload /\ pc = "exited" /\ exitCode = 1
    /\ Len(files) >= 5 /\ Len(Puts) = 3
    /\ Puts[2].res = "ok" /\ Puts[3].res = "IOError"

\* The counts k a batch of n files reports once upto files are done.
Reported(n, upto) == { k \in 1..upto : k % 10 = 0 \/ k = n }

\* C5: in a directory upload the progress lines printed once i files are
\* done are exactly those for the multiples of 10 up to i and for N = the
\* number of files, each once and in increasing order, each stating N, and
\* the line for k is printed when exactly k puts have completed.
C5_ProgressCadence ==
    DirUpload =>
        LET lines == ProgressLines
            at == { k \in 1..Len(log) : IsProgressLine(log[k]) }
        IN  /\ Len(lines) = Cardinality(Reported(Len(files), i))
            /\ \A j \in 1..Len(lines) :
                 /\ lines[j].arg[2] \in Reported(Len(files), i)
                 /\ lines[j].arg[3] = Len(files)
                 /\ j > 1 => lines[j - 1].arg[2] < lines[j].arg[2]
            /\ \A k \in at : PutsDoneBefore(k) = log[k].arg[2]
            /\ (pc = "put" \/ pc = "progress") => Len(Puts) >= i

\* C5 witness: a batch of 21 files ended with the lines for 10, 20 and 21.
C5_Witness ==
    /\ DirUpload /\ pc = "exited" /\ exitCode = 0 /\ Len(files) = 21
    /\ Len(ProgressLines) = 3
    /\ ProgressLines[2].arg[2] = 20 /\ ProgressLines[3].arg[2] = 21

\* C6: in a directory upload the puts issued so far are the first files of
\* the file list, in its order, one put per file; only the last one issued
\* can have failed; each target is remote_dir + "/" + base name; no file
\* and no target occurs twice.
C6_BatchOrder ==
    DirUpload =>
        LET puts == Puts
        IN  /\ Len(puts) <= Len(files)
            /\ \A k \in 1..Len(puts) :
                 /\ puts[k].arg[1] = Str(files[k])
                 /\ puts[k].arg[2] = RemotePath \o "/" \o files[k].name
                 /\ k < Len(puts) => puts[k].res = "ok"
            /\ \A j, k \in 1..Len(puts) :
                 j # k => (puts[j].arg[1] # puts[k].arg[1] /\ puts[j].arg[2] # puts[k].arg[2])

\* C6 witness: upload_images sent the png, the two jpg and the webp file of a
\* directory of six entries, in list order.
C6_Witness ==
    /\ prog = "upload_images" /\ pc = "exited" /\ exitCode = 0
    /\ Len(Puts) = 4 /\ Puts[1].arg[2] = RemoteDir \o "/4.png"
    /\ Puts[2].arg[2] = RemoteDir \o "/2.jpg" /\ Puts[3].arg[2] = RemoteDir \o "/6.jpg"
    /\ Puts[4].arg[2] = RemoteDir \o "/3.webp"

\* C7: with host, user or password absent or empty in the .env file, no SSH
\* client is ever created, no remote operation is issued, and the process
\* ends with exit code 1.
C7_PreflightConfig ==
    (envFile.exists /\ ~(envFile.config.SSH_HOST \notin {"absent", ""}
                          /\ envFile.config.SSH_USER \notin {"absent", ""}
                          /\ envFile.config.SSH_PASSWORD \notin {"absent", ""})) =>
        /\ client = "none" /\ closeCount = 0
        /\ Len(Ops) = 0
        /\ pc = "exited" => exitCode = 1

\* C7 witness: upload_images ended with 1 on an empty password.
C7_Witness ==
    /\ prog = "upload_images" /\ pc = "exited" /\ exitCode = 1
    /\ envFile.exists /\ envFile.config.SSH_PASSWORD = ""
    /\ config = envFile.config /\ client = "none"

\* C8: in scp_copy and upload_images, when the local path does not exist no
\* remote operation is ever issued and the process ends with exit code 1.
C8_LocalCheckFirst ==
    (/\ prog \in {"scp_copy", "upload_images"}
     /\ prog = "scp_copy" => Len(argv) >= 2
     /\ ~(\/ Str(LocalPath) = LocalFile
          \/ Str(LocalPath) = LocalDir /\ localFs.dirExists)) =>
        /\ client = "none"
        /\ Len(Ops) = 0
        /\ pc = "exited" => exitCode = 1

\* C8 witness: scp_copy on a missing path, with a complete configuration,
\* ended with 1 at the local-path check.
C8_Witness ==
    /\ prog = "scp_copy" /\ Len(argv) >= 2 /\ argv[1] = MissingPath
    /\ pc = "exited" /\ exitCode = 1 /\ ConfigComplete(config) /\ envFile.exists
    /\ Len(log) = 1 /\ log[1].arg[1] = "Error: Local path not found"

\* C2: once ssh_run has started the remote command, it eventually has read
\* both streams and obtained the exit status (or an operation has failed),
\* whatever the command writes to stdout and stderr.
C2_NoOutputDeadlock ==
    (prog = "ssh_run" /\ pc = "read_stdout") ~> (pc = "print_output" \/ exc # "none")

\* The regular files of the local directory the invocation is to upload:
\* all of them for scp_copy, those with an image extension for upload_images.
FilesToUpload ==
    { e \in Range(localFs.entries) :
        e.kind = "file" /\ (prog = "upload_images" => e.suffix \in {"png", "jpg", "webp"}) }

\* The session and the transfer channel were opened.
SessionUp == \E k \in 1..Len(log) : log[k].op = "open_sftp" /\ log[k].res = "ok"

\* The transport failed an operation.
TransportFailed ==
    \E k \in 1..Len(log) : IsOp(log[k]) /\ log[k].res \in {"SSHException", "AuthenticationException"}

\* C9: a directory upload whose local directory holds no file to upload,
\* once connected, ends with exit code 0 and a total of 0, issues no put,
\* and issues at most one mkdir and no other remote change.
C9_EmptySetSuccess ==
    (DirUpload /\ pc = "exited" /\ SessionUp /\ ~TransportFailed /\ FilesToUpload = {}) =>
        /\ exitCode = 0
        /\ Len(files) = 0
        /\ Len(Puts) = 0
        /\ Cardinality({ k \in 1..Len(log) : log[k].op = "mkdir" }) <= 1
        /\ \A k \in 1..Len(log) :
             log[k].op \in {"print", "connect", "open_sftp", "mkdir", "close"}

\* The last remote operation issued before the session was closed.
LastOpIndex ==
    LET at == { k \in 1..Len(log) : log[k].op \notin {"print", "close"} }
    IN  IF at = {} THEN 0 ELSE CHOOSE k \in at : \A m \in at : m <= k

\* No operation failed, except that the server may have refused the mkdir.
NothingFailed ==
    \A k \in 1..Len(log) :
        IsOp(log[k]) => (log[k].res = "ok" \/ (log[k].op = "mkdir" /\ log[k].res = "IOError"))

\* C10: in a directory upload a mkdir the server refused is never the
\* failure that ends the invocation; when nothing else fails the invocation
\* puts every file and ends with 0; and a second invocation against the
\* remote directory the first one left leaves the remote host as it was
\* after the first.
C10_IdempotentEnsure ==
    DirUpload =>
        /\ (exc # "none" /\ LastOpIndex > 0) =>
               ~(log[LastOpIndex].op = "mkdir" /\ log[LastOpIndex].res = "IOError")
        /\ (pc = "exited" /\ SessionUp /\ NothingFailed) =>
               (exitCode = 0 /\ Len(Puts) = Len(files))
        /\ (runNo = 2 /\ pc = "exited" /\ SessionUp /\ NothingFailed /\ RemotePath \in prevRemote.dirs) =>
               remote = prevRemote

\* C10 witness: the first invocation created the remote directory, the
\* second was refused the mkdir and still uploaded every file and ended
\* with 0.
C10_Witness ==
    /\ DirUpload /\ runNo = 2 /\ pc = "exited" /\ exitCode = 0
    /\ Len(files) >= 3 /\ Len(Puts) = Len(files)
    /\ \E k \in 1..Len(log) : log[k].op = "mkdir" /\ log[k].res = "IOError"
    /\ \E k \in 1..Len(prevLog) : prevLog[k].op = "mkdir" /\ prevLog[k].res = "ok"
    /\ remote = prevRemote

\* The transfers scp_copy is asked for: one for a regular file, one per
\* regular file of a directory.
Requested ==
    IF Str(LocalPath) = LocalFile THEN 1
    ELSE Cardinality({ k \in 1..Len(localFs.entries) : localFs.entries[k].kind = "file" })

\* The transfers completed in this invocation.
PutsDone == Cardinality({ k \in 1..Len(log) : log[k].op = "put" /\ log[k].res = "ok" })

\* A "Done!" line was printed.
DonePrinted ==
    \E k \in 1..Len(log) :
        log[k].op = "print" /\ log[k].arg[1] \in {"Done! Uploaded", "Done! Uploaded files"}

\* C11: scp_copy ends with 0 exactly when connect and open_sftp succeeded
\* and every requested transfer completed, and with 1 otherwise; a "Done!"
\* line is printed only in invocations that end with 0 after at least one
\* transfer.
C11_ScpExitCode ==
    (prog = "scp_copy" /\ pc = "exited") =>
        /\ exitCode \in {0, 1}
        /\ exitCode = 0 <=>
             /\ \E k \in 1..Len(log) : log[k].op = "connect" /\ log[k].res = "ok"
             /\ SessionUp
             /\ PutsDone = Requested
        /\ DonePrinted => (exitCode = 0 /\ PutsDone >= 1)

\* C11 witness: a directory of at least two files uploaded, "Done!" printed,
\* exit code 0.
C11_Witness ==
    /\ prog = "scp_copy" /\ pc = "exited" /\ exitCode = 0
    /\ DirUpload /\ PutsDone = Requested /\ Requested >= 2 /\ DonePrinted

\* The operations that need a connected session.
SessionOps ==
    {"open_sftp", "exec_command", "mkdir", "put", "sftp.close",
     "stdout.read", "stderr.read", "recv_exit_status"}

\* The entries a step appends to the log.
Appended == { k \in 1..Len(log') : k > Len(log) }

\* C12: within an invocation the client moves only from created
\* (unconnected) to connected or closed and from connected to closed; it is
\* created once; connect is issued only on the unconnected client, every
\* other remote operation only on the connected one, and once the client is
\* closed nothing is issued and it stays closed.
C12_SessionStateMachine ==
    [][ runNo' = runNo =>
          /\ client' # client =>
               \/ client = "none" /\ client' = "unconnected"
               \/ client = "unconnected" /\ client' \in {"connected", "closed"}
               \/ client = "connected" /\ client' = "closed"
          /\ \A k \in Appended :
               /\ log'[k].op = "connect" => client = "unconnected"
               /\ log'[k].op \in SessionOps => client = "connected"
               /\ log'[k].op = "close" => (client \in {"unconnected", "connected"} /\ client' = "closed")
          /\ client = "closed" => \A k \in Appended : log'[k].op = "print"
      ]_vars

\* C12 witness: ssh_run whose connect failed ended with the client closed
\* without ever having been connected.
C12_Witness ==
    /\ prog = "ssh_run" /\ pc = "exited" /\ client = "closed"
    /\ Len(Ops) = 2 /\ Ops[1].op = "connect" /\ Ops[1].res = "SSHException"
    /\ Ops[2].op = "close"

\* Every direct child of the local directory is a regular file.
AllRegular == \A k \in 1..Len(localFs.entries) : localFs.entries[k].kind = "file"

\* The printed lines that state a count under the given heading.
CountLines(heading) ==
    LET is(e) == e.op = "print" /\ e.arg[1] = heading IN SelectSeq(log, is)

\* C13: when scp_copy uploads a directory whose direct children are all
\* regular files, the total it announces is the number of those files, and
\* when nothing fails the completed puts, the last progress line and the
\* "Done!" line all give that number.
C13_BatchCounts ==
    (prog = "scp_copy" /\ DirUpload /\ AllRegular /\ SessionUp) =>
        LET n == Len(localFs.entries)
        IN  /\ pc \notin {"is_file", "except"} => Len(files) = n
            /\ \A k \in 1..Len(CountLines("Uploading files")) :
                 CountLines("Uploading files")[k].arg[2] = n
            /\ (pc = "exited" /\ NothingFailed /\ n >= 1) =>
                 /\ PutsDone = n
                 /\ Len(ProgressLines) >= 1
                 /\ ProgressLines[Len(ProgressLines)].arg[2] = n
                 /\ ProgressLines[Len(ProgressLines)].arg[3] = n
                 /\ Len(CountLines("Done! Uploaded files")) = 1
                 /\ CountLines("Done! Uploaded files")[1].arg[2] = n

\* C13 witness: twelve regular files, twelve puts, "Uploaded 12/12" and
\* "Done! Uploaded 12 files."
C13_Witness ==
    /\ prog = "scp_copy" /\ DirUpload /\ AllRegular /\ pc = "exited" /\ exitCode = 0
    /\ Len(localFs.entries) = 12 /\ PutsDone = 12
    /\ ProgressLines[Len(ProgressLines)].arg[2] = 12
    /\ CountLines("Done! Uploaded files")[1].arg[2] = 12

\* The invocation is a single-file upload by scp_copy.
SingleUpload == prog = "scp_copy" /\ Len(argv) >= 2 /\ Str(LocalPath) = LocalFile

\* C14: after a single-file scp_copy that ended with 0, remote_path holds
\* the bytes of the local file whatever it held when the invocation began,
\* one put and no mkdir were issued, and every other remote path and
\* every remote directory is as it was.
C14_SingleFileOverwrite ==
    (SingleUpload /\ pc = "exited" /\ exitCode = 0) =>
        /\ HasFile(remote, argv[2])
        /\ remote.files[argv[2]] = "bytes of " \o argv[1]
        /\ Len(Puts) = 1 /\ Puts[1].arg = <<argv[1], argv[2]>>
        /\ \A k \in 1..Len(log) : log[k].op # "mkdir"
        /\ remote.dirs = prevRemote.dirs
        /\ DOMAIN remote.files = DOMAIN prevRemote.files \cup {argv[2]}
        /\ \A q \in DOMAIN prevRemote.files : q # argv[2] => remote.files[q] = prevRemote.files[q]

\* C14 witness: the remote file held other content before and the bytes of
\* the local file after, next to an untouched remote file.
C14_Witness ==
    /\ SingleUpload /\ pc = "exited" /\ exitCode = 0 /\ runNo = 1
    /\ HasFile(prevRemote, argv[2]) /\ prevRemote.files[argv[2]] = "old"
    /\ remote.files[argv[2]] = "bytes of file.txt"
    /\ Cardinality(DOMAIN remote.files) = 2

\* The positions of the events of operation op with result "ok" in the log.
OkAt(op) == { k \in 1..Len(log) : log[k].op = op /\ log[k].res = "ok" }

\* The positions of the lines that print the captured output.
CapturedAt ==
    { k \in 1..Len(log) : log[k].op = "print"
                          /\ log[k].arg[1] \in {"output", "errors"} }

\* C15: in ssh_run the exit status is requested only after stdout.read and
\* then stderr.read have returned at end-of-stream, never while a stream
\* has unread or unwritten data, and the captured output is printed only
\* after the exit status has been obtained.
C15_DrainBeforeStatus ==
    prog = "ssh_run" =>
        /\ pc \in {"recv_exit_status", "print_output"} =>
              /\ chan.exited
              /\ chan.outLeft = 0 /\ chan.errLeft = 0
              /\ chan.outBuf = 0 /\ chan.errBuf = 0
              /\ OkAt("stdout.read") # {} /\ OkAt("stderr.read") # {}
        /\ \A k \in OkAt("recv_exit_status") :
              \E a \in OkAt("stdout.read") : \E b \in OkAt("stderr.read") : a < b /\ b < k
        /\ \A p \in CapturedAt : \E k \in OkAt("recv_exit_status") : k < p
        /\ pc = "read_stderr" => OkAt("recv_exit_status") = {}

\* C15 witness: a command that wrote to both streams has ended, both were
\* read to the end, the status was obtained and the output printed.
C15_Witness ==
    /\ prog = "ssh_run" /\ pc = "exited"
    /\ output > 0 /\ errors > 0
    /\ OkAt("recv_exit_status") # {}
    /\ Cardinality(CapturedAt) = 2

\* str(f) for the regular files directly inside the local directory that the
\* invocation is to upload.
RegularChildren == { LocalDir \o "/" \o e.name : e \in FilesToUpload }

\* The local paths handed to put so far.
PutPaths == { Puts[k].arg[1] : k \in 1..Len(Puts) }

\* C16: in a directory upload every path handed to put is a regular file
\* directly inside the local directory, also when a subdirectory has an
\* image name, and an upload_images that ran to its end has put exactly
\* the regular files named *.png, *.jpg or *.webp, each once.
C16_OnlyRegularChildren ==
    DirUpload =>
        /\ PutPaths \subseteq RegularChildren
        /\ (prog = "upload_images" /\ pc = "exited" /\ exitCode = 0 /\ SessionUp) =>
              /\ PutPaths = RegularChildren
              /\ Len(Puts) = Cardinality(RegularChildren)

\* The three messages of the except clauses.
AuthenticationFailed == "Error: Authentication failed"
TransportFailure == "Error: SSH connection failed"
Other == "Error:"

\* The lines printed by the except clauses so far.
ErrorLines ==
    LET is(e) == e.op = "print"
                 /\ e.arg[1] \in {AuthenticationFailed, TransportFailure, Other}
    IN  SelectSeq(log, is)

\* The kind a failure of class e is to be reported under.
KindOf(e) ==
    IF e = "AuthenticationException" THEN AuthenticationFailed
    ELSE IF e = "SSHException" THEN TransportFailure
    ELSE Other

\* C17: a failure raised after the client was created is reported once, on
\* stderr, under one kind: rejected credentials as authentication failed,
\* any other SSH failure as connection failed, everything else as "Error:";
\* without a failure no such line is printed.
C17_ExclusiveClassification ==
    /\ exc = "none" => Len(ErrorLines) = 0
    /\ (exc # "none" /\ pc = "except") => Len(ErrorLines) = 0
    /\ (exc # "none" /\ pc \in {"finally", "leave", "exited"}) =>
          /\ ClientCreated
          /\ Len(ErrorLines) = 1
          /\ ErrorLines[1].res = "stderr"
          /\ ErrorLines[1].arg = <<KindOf(exc), exc>>

\* C17 witness: the server rejected the credentials and the invocation
\* ended with the authentication message.
C17_Witness ==
    /\ exc = "AuthenticationException" /\ pc = "exited" /\ exitCode = 1
    /\ Len(ErrorLines) = 1
    /\ ErrorLines[1].arg[1] = AuthenticationFailed

\* sftp.close() was called.
ExplicitSftpClose == \E k \in 1..Len(log) : log[k].op = "sftp.close"

\* The position of the successful connect, 0 when there is none.
ConnectedAt ==
    LET at == OkAt("connect") IN IF at = {} THEN 0 ELSE CHOOSE k \in at : TRUE

\* C18: the SFTP channel is opened only after a successful connect, is open
\* only while the client is connected, and is not open once the client is
\* closed or the process has ended, also when sftp.close() was skipped by
\* the early "no files" return or by a failure after open_sftp.
C18_ChannelWithinSession ==
    /\ sftp = "open" => client = "connected"
    /\ client = "closed" => sftp # "open"
    /\ pc = "exited" => sftp # "open"
    /\ \A k \in 1..Len(log) :
          log[k].op = "open_sftp" => (ConnectedAt > 0 /\ ConnectedAt < k)
    /\ sftp # "none" => OkAt("open_sftp") # {}

\* C18 witness: scp_copy found no files and returned without sftp.close();
\* the channel went down with the client.
C18_Witness ==
    /\ prog = "scp_copy" /\ pc = "exited" /\ exitCode = 0
    /\ DirUpload /\ Len(files) = 0
    /\ OkAt("open_sftp") # {} /\ ~ExplicitSftpClose
    /\ sftp = "closed" /\ client = "closed"

\* The positions of the mkdir requests in the log.
MkdirAt == { k \in 1..Len(log) : log[k].op = "mkdir" }

\* C19: in a directory upload by scp_copy mkdir is issued at most once, only
\* when there is a regular file to upload and before any put; when the local
\* directory holds no regular file neither mkdir nor put is issued and the
\* remote host is as it was when the invocation began.
C19_EmptyLeavesRemoteUnchanged ==
    (prog = "scp_copy" /\ DirUpload) =>
        /\ Cardinality(MkdirAt) <= 1
        /\ MkdirAt # {} => (FilesToUpload # {} /\ Len(files) = Cardinality(FilesToUpload))
        /\ \A m \in MkdirAt : PutsDoneBefore(m) = 0
        /\ \A k \in 1..Len(log) : log[k].op = "put" => \E m \in MkdirAt : m < k
        /\ FilesToUpload = {} =>
              /\ MkdirAt = {}
              /\ Len(Puts) = 0
              /\ remote = prevRemote

\* C19 witness: the local directory held only a subdirectory, the remote
\* directory did not exist, and the invocation ended with it still absent.
C19_Witness ==
    /\ prog = "scp_copy" /\ DirUpload /\ pc = "exited" /\ exitCode = 0
    /\ SessionUp /\ Len(localFs.entries) > 0 /\ FilesToUpload = {}
    /\ argv[2] \notin remote.dirs
    /\ remote = prevRemote
====
